---- MODULE Spec2Model ----
(***************************************************************************)
(* Model of go2_video (src/src/main.rs): the main flow of `main` from      *)
(* context creation to process exit, and the spawned WebRTC bootstrapper   *)
(* task.  Every call of main that can fail is one action with an Ok and a  *)
(* failing outcome; the outcome of external calls (r2r, video_rs,          *)
(* go2webrtc_rs) is the environment's choice.                              *)
(***************************************************************************)
EXTENDS Integers, Sequences, FiniteSets, TLC

(* ------------------------------ bounds --------------------------------- *)
\* Longest stream the decode session yields before it signals its end.
MaxFrames == 2

(* --------------------------- program constants ------------------------- *)
ExitOk == 0          \* main returns Ok(())
ExitErr == 1         \* main returns Err(_): `?` on a failed call
ExitPanic == 101     \* unwrap()/expect() on a failed call
VideoPort == 4002
AudioPort == 4000
BytesPerPixel == 3
NanosPerSec == 1000000000

(* ------------------------------ input sets ----------------------------- *)
\* Output geometries (width, height) a decode session may negotiate.
Sizes == {<<64, 48>>, <<1920, 1080>>}
\* Raw payloads of decoded frames (Frame::into_raw_vec).
Frames == {<<17, 42>>, <<42, 17>>}
\* Clock readings, in nanoseconds since the epoch (around a second boundary).
Times == {999999999, 1000000000}
\* Values of the ROBOT_IP / ROBOT_TOKEN environment variables; "unset" is absent.
EnvValues == {"unset", "robot"}
Endians == {"little", "big"}

NoFrame == <<>>
NoArgs == [video_port |-> 0, audio_port |-> 0, robot_ip |-> "none",
           robot_token |-> "none", debug_webrtc |-> FALSE]

VARIABLES
    pc,             \* position of the main flow
    exitCode,       \* process exit code, -1 while the process runs
    target_endian,  \* cfg!(target_endian): fixed by the build
    env,            \* ROBOT_IP and ROBOT_TOKEN of the process environment
    node_params,    \* the shared NodeParams behind Arc<Mutex<_>>
    lock,           \* holder of the node_params mutex: "free" or "task"
    task,           \* state of the spawned bootstrapper task
    taskArgs,       \* the five values the task passes to go2webrtc_rs::run
    spawnCount,     \* number of task::spawn calls
    slept,          \* the 3 s grace period has elapsed
    decoderNews,    \* number of Decoder::new_with_options calls
    taskAtResolve,  \* state of the task when the decoder was constructed
    decoder,        \* the decode session: geometry and frames left
    clock,          \* the r2r clock: which query fails, queries so far
    publisherOk,    \* the publisher has been created
    image_msg,      \* the Image message reused by every iteration
    frame,          \* payload of the frame pulled in this iteration
    now,            \* value of `now` in this iteration
    pulls,          \* number of pulls issued on decode_iter
    lastPull,       \* outcome of the latest pull
    pulled,         \* payloads of the successfully pulled frames, in order
    readings,       \* values returned by the successful clock queries
    sink,           \* messages handed to publisher.publish, in order
    publishResults  \* what publish returned for each of them

vars == <<pc, exitCode, target_endian, env, taskAtResolve, node_params, lock, task, taskArgs,
          spawnCount, slept, decoderNews, decoder, clock, publisherOk,
          image_msg, frame, now, pulls, lastPull, pulled, readings, sink,
          publishResults>>

mainVars == <<pc, exitCode, node_params, spawnCount, slept, decoderNews,
              decoder, clock, publisherOk, image_msg, frame, now, pulls,
              lastPull, pulled, readings, sink, publishResults>>
taskVars == <<task, lock, taskArgs>>

(* ------------------------------ helpers -------------------------------- *)
\* NodeParams::default() (#[derive(Default)]).
NodeParamsDefault ==
    [robot_ip |-> "", robot_token |-> "", video_port |-> 0, audio_port |-> 0,
     debug_webrtc |-> FALSE]

\* env::var(name).unwrap_or_else(|_| "".to_string())
EnvOrEmpty(v) == IF v = "unset" THEN "" ELSE v

\* Image::default()
ImageDefault ==
    [frame_id |-> "", stamp |-> [sec |-> 0, nanosec |-> 0], width |-> 0,
     height |-> 0, step |-> 0, encoding |-> "", is_bigendian |-> 0,
     data |-> <<>>]


\* if cfg!(target_endian = "little") {0} else if cfg!(target_endian = "big") {1}
EndianFlagZero(old, endian) == 0
EndianFlag(old, endian) ==
    IF endian = "little" THEN 0 ELSE IF endian = "big" THEN 1 ELSE old

\* r2r::Clock::to_builtin_time(&now): whole seconds and sub-second nanoseconds.
to_builtin_time_swapped(d) ==
    [sec |-> d % NanosPerSec, nanosec |-> d \div NanosPerSec]
to_builtin_time(d) == [sec |-> d \div NanosPerSec, nanosec |-> d % NanosPerSec]

\* Order of two builtin Time values.
TimeLeq(a, b) == a.sec < b.sec \/ (a.sec = b.sec /\ a.nanosec <= b.nanosec)

\* The process ends with `code`; nothing runs afterwards.
Exit(code) == /\ pc' = "exited"
              /\ exitCode' = code

(* ------------------------------- Init ---------------------------------- *)
Init ==
    /\ pc = "ctx_create"
    /\ exitCode = -1
    /\ target_endian \in Endians
    /\ env \in [ROBOT_IP : EnvValues, ROBOT_TOKEN : EnvValues]
    /\ taskAtResolve = "none"
    /\ node_params = NodeParamsDefault
    /\ lock = "free"
    /\ task = "unspawned"
    /\ taskArgs = NoArgs
    /\ spawnCount = 0
    /\ slept = FALSE
    /\ decoderNews = 0
    /\ decoder = [open |-> FALSE, width |-> 0, height |-> 0, left |-> 0]
    /\ clock = [state |-> "none", failAt |-> 0, queries |-> 0]
    /\ publisherOk = FALSE
    /\ image_msg = ImageDefault
    /\ frame = NoFrame
    /\ now = 0
    /\ pulls = 0
    /\ lastPull = "none"
    /\ pulled = <<>>
    /\ readings = <<>>
    /\ sink = <<>>
    /\ publishResults = <<>>

(* ------------------------- main flow: startup -------------------------- *)
\* r2r::Context::create()?                                        (line 45)
ContextCreate ==
    /\ pc = "ctx_create"
    /\ \/ pc' = "node_create" /\ exitCode' = exitCode
       \/ Exit(ExitErr)
    /\ UNCHANGED <<target_endian, env, taskAtResolve, node_params, spawnCount, slept, decoderNews,
                   decoder, clock, publisherOk, image_msg, frame, now, pulls,
                   lastPull, pulled, readings, sink, publishResults>>
    /\ UNCHANGED taskVars

\* r2r::Node::create(ctx, "go2_video", "")?                       (line 46)
NodeCreate ==
    /\ pc = "node_create"
    /\ \/ pc' = "clock_create" /\ exitCode' = exitCode
       \/ Exit(ExitErr)
    /\ UNCHANGED <<target_endian, env, taskAtResolve, node_params, spawnCount, slept, decoderNews,
                   decoder, clock, publisherOk, image_msg, frame, now, pulls,
                   lastPull, pulled, readings, sink, publishResults>>
    /\ UNCHANGED taskVars

\* What main does when clock creation or a clock query fails: `?` returns Err.
OnClockErrBreak == pc' = "return" /\ exitCode' = exitCode
OnClockErrSkip == pc' = "assemble" /\ exitCode' = exitCode
OnClockErr == Exit(ExitErr)

\* r2r::Clock::create(r2r::ClockType::RosTime)?                   (line 47)
\* failAt is the environment's choice of the query that will fail (0: none).
ClockCreate ==
    /\ pc = "clock_create"
    /\ \/ /\ \E f \in 0..MaxFrames :
               clock' = [state |-> "created", failAt |-> f, queries |-> 0]
          /\ pc' = "node_name"
          /\ exitCode' = exitCode
       \/ /\ OnClockErr
          /\ clock' = [clock EXCEPT !.state = "create_failed"]
    /\ UNCHANGED <<target_endian, env, taskAtResolve, node_params, spawnCount, slept, decoderNews,
                   decoder, publisherOk, image_msg, frame, now, pulls,
                   lastPull, pulled, readings, sink, publishResults>>
    /\ UNCHANGED taskVars

\* log_info!(.., node.name()?)                                    (line 49)
NodeName ==
    /\ pc = "node_name"
    /\ \/ pc' = "video_init" /\ exitCode' = exitCode
       \/ Exit(ExitErr)
    /\ UNCHANGED <<target_endian, env, taskAtResolve, node_params, spawnCount, slept, decoderNews,
                   decoder, clock, publisherOk, image_msg, frame, now, pulls,
                   lastPull, pulled, readings, sink, publishResults>>
    /\ UNCHANGED taskVars

\* video_rs::init().unwrap()                                      (line 52)
VideoInit ==
    /\ pc = "video_init"
    /\ \/ pc' = "params" /\ exitCode' = exitCode
       \/ Exit(ExitPanic)
    /\ UNCHANGED <<target_endian, env, taskAtResolve, node_params, spawnCount, slept, decoderNews,
                   decoder, clock, publisherOk, image_msg, frame, now, pulls,
                   lastPull, pulled, readings, sink, publishResults>>
    /\ UNCHANGED taskVars

\* The NodeParams value built at lines 56-62 from the environment.
MakeNodeParamsSwappedPorts(ip, token) ==
    [NodeParamsDefault EXCEPT !.robot_ip = EnvOrEmpty(ip),
                              !.robot_token = EnvOrEmpty(token),
                              !.video_port = AudioPort,
                              !.audio_port = VideoPort,
                              !.debug_webrtc = TRUE]
MakeNodeParams(ip, token) ==
    [NodeParamsDefault EXCEPT !.robot_ip = EnvOrEmpty(ip),
                              !.robot_token = EnvOrEmpty(token),
                              !.video_port = VideoPort,
                              !.audio_port = AudioPort,
                              !.debug_webrtc = TRUE]

\* let node_params = Arc::new(Mutex::new({..}))               (lines 55-63)
ParamsInit ==
    /\ pc = "params"
    /\ node_params' = MakeNodeParams(env.ROBOT_IP, env.ROBOT_TOKEN)
    /\ pc' = "param_handler"
    /\ UNCHANGED <<exitCode, target_endian, env, taskAtResolve, spawnCount, slept, decoderNews,
                   decoder, clock, publisherOk, image_msg, frame, now, pulls,
                   lastPull, pulled, readings, sink, publishResults>>
    /\ UNCHANGED taskVars

\* let _ = node.make_derived_parameter_handler(node_params.clone())?  (line 64)
\* The returned handler future is dropped at once and never polled.
ParamHandler ==
    /\ pc = "param_handler"
    /\ \/ pc' = "spawn" /\ exitCode' = exitCode
       \/ Exit(ExitErr)
    /\ UNCHANGED <<target_endian, env, taskAtResolve, node_params, spawnCount, slept, decoderNews,
                   decoder, clock, publisherOk, image_msg, frame, now, pulls,
                   lastPull, pulled, readings, sink, publishResults>>
    /\ UNCHANGED taskVars

\* Position of main after task::spawn returns: the grace-period sleep.
AfterSpawnNoSleep == "decoder_new"
AfterSpawn == "sleep"

\* let _webrtc_handle = task::spawn(async move {..})          (lines 67-91)
Spawn ==
    /\ pc = "spawn"
    /\ task' = "spawned"
    /\ spawnCount' = spawnCount + 1
    /\ pc' = AfterSpawn
    /\ UNCHANGED <<exitCode, target_endian, env, taskAtResolve, node_params, slept, decoderNews,
                   decoder, clock, publisherOk, image_msg, frame, now, pulls,
                   lastPull, pulled, readings, sink, publishResults, lock,
                   taskArgs>>

\* time::sleep(Duration::from_secs(3)).await                      (line 94)
Sleep ==
    /\ pc = "sleep"
    /\ slept' = TRUE
    /\ pc' = "decoder_new"
    /\ UNCHANGED <<exitCode, target_endian, env, taskAtResolve, node_params, spawnCount,
                   decoderNews, decoder, clock, publisherOk, image_msg, frame,
                   now, pulls, lastPull, pulled, readings, sink,
                   publishResults>>
    /\ UNCHANGED taskVars

\* What main does when Decoder::new_with_options fails: expect() panics.
OnDecoderErrRetry == pc' = "decoder_new" /\ exitCode' = exitCode
OnDecoderErrGoOn == pc' = "create_publisher" /\ exitCode' = exitCode
OnDecoderErr == Exit(ExitPanic)

\* Decoder::new_with_options(&source, &decoder_options).expect(..)
\*                                                          (lines 97-107)
\* On success the session has a negotiated output size and a finite number of
\* frames left before it signals its end.
DecoderNew ==
    /\ pc = "decoder_new"
    /\ decoderNews' = decoderNews + 1
    /\ taskAtResolve' = task
    /\ \/ /\ \E sz \in Sizes, n \in 0..MaxFrames :
               decoder' = [open |-> TRUE, width |-> sz[1], height |-> sz[2],
                           left |-> n]
          /\ pc' = "create_publisher"
          /\ exitCode' = exitCode
       \/ /\ OnDecoderErr
          /\ decoder' = decoder
    /\ UNCHANGED <<target_endian, env, node_params, spawnCount, slept, clock,
                   publisherOk, image_msg, frame, now, pulls, lastPull,
                   pulled, readings, sink, publishResults>>
    /\ UNCHANGED taskVars

\* node.create_publisher::<Image>(.., QosProfile::default())?    (line 113)
CreatePublisher ==
    /\ pc = "create_publisher"
    /\ \/ /\ publisherOk' = TRUE
          /\ pc' = "header"
          /\ exitCode' = exitCode
       \/ /\ Exit(ExitErr)
          /\ publisherOk' = publisherOk
    /\ UNCHANGED <<target_endian, env, taskAtResolve, node_params, spawnCount, slept, decoderNews,
                   decoder, clock, image_msg, frame, now, pulls, lastPull,
                   pulled, readings, sink, publishResults>>
    /\ UNCHANGED taskVars

\* The header shape computed from decoder.size_out()         (lines 116-128)
StepOfWidthOnly(width) == width
StepOf(width) == width * BytesPerPixel

HeaderOf(width, height, endian) ==
    [ImageDefault EXCEPT !.frame_id = "front_camera",
                         !.width = width,
                         !.height = height,
                         !.step = StepOf(width),
                         !.encoding = "rgb8",
                         !.is_bigendian = EndianFlag(ImageDefault.is_bigendian,
                                                     endian)]

Header ==
    /\ pc = "header"
    /\ image_msg' = HeaderOf(decoder.width, decoder.height, target_endian)
    /\ pc' = "pull"
    /\ UNCHANGED <<exitCode, target_endian, env, taskAtResolve, node_params, spawnCount, slept,
                   decoderNews, decoder, clock, publisherOk, frame, now,
                   pulls, lastPull, pulled, readings, sink, publishResults>>
    /\ UNCHANGED taskVars

(* ------------------------ main flow: decode loop ----------------------- *)
\* Position of main after a pull: `if let Ok(..) = frame {..} else { break }`.
AfterPullRetry(outcome) == IF outcome = "ok" THEN "get_now" ELSE "pull"
AfterPull(outcome) == IF outcome = "ok" THEN "get_now" ELSE "return"

\* for frame in decoder.decode_iter() { if let Ok((_, frame)) = frame  (132-133)
\* One pull: a frame while the session has frames left, else its end signal
\* or a decode error; a decode error may also come while frames are left.
Pull ==
    /\ pc = "pull"
    /\ pulls' = pulls + 1
    /\ \/ /\ decoder.left > 0
          /\ \E f \in Frames :
               /\ frame' = f
               /\ pulled' = Append(pulled, f)
          /\ decoder' = [decoder EXCEPT !.left = @ - 1]
          /\ lastPull' = "ok"
       \/ /\ decoder.left = 0
          /\ lastPull' = "eos"
          /\ UNCHANGED <<frame, pulled, decoder>>
       \/ /\ lastPull' = "error"
          /\ UNCHANGED <<frame, pulled, decoder>>
    /\ pc' = AfterPull(lastPull')
    /\ UNCHANGED <<exitCode, target_endian, env, taskAtResolve, node_params, spawnCount, slept,
                   decoderNews, clock, publisherOk, image_msg, now, readings,
                   sink, publishResults>>
    /\ UNCHANGED taskVars

\* let now = clock.get_now()?                                    (line 134)
GetNow ==
    /\ pc = "get_now"
    /\ clock' = [clock EXCEPT !.queries = @ + 1]
    /\ \/ /\ clock'.queries # clock.failAt
          /\ \E t \in Times :
               /\ now' = t
               /\ readings' = Append(readings, t)
          /\ pc' = "assemble"
          /\ exitCode' = exitCode
       \/ /\ clock'.queries = clock.failAt
          /\ OnClockErr
          /\ UNCHANGED <<now, readings>>
    /\ UNCHANGED <<target_endian, env, taskAtResolve, node_params, spawnCount, slept, decoderNews,
                   decoder, publisherOk, image_msg, frame, pulls, lastPull,
                   pulled, sink, publishResults>>
    /\ UNCHANGED taskVars

\* image_msg.data = frame.into_raw_vec(): the payload is replaced.
NewDataAppend(old, f) == old \o f
NewData(old, f) == f

\* image_msg.header.stamp = to_builtin_time(&now); image_msg.data = ..  (136-137)
AssembleFreshMsg ==
    /\ pc = "assemble"
    /\ image_msg' = [ImageDefault EXCEPT !.stamp = to_builtin_time(now),
                                         !.data = NewData(@, frame)]
    /\ pc' = "publish"
    /\ UNCHANGED <<exitCode, target_endian, env, taskAtResolve, node_params,
                   spawnCount, slept, decoderNews, decoder, clock, publisherOk,
                   frame, now, pulls, lastPull, pulled, readings, sink,
                   publishResults>>
    /\ UNCHANGED taskVars
Assemble ==
    /\ pc = "assemble"
    /\ image_msg' = [image_msg EXCEPT !.stamp = to_builtin_time(now),
                                      !.data = NewData(@, frame)]
    /\ pc' = "publish"
    /\ UNCHANGED <<exitCode, target_endian, env, taskAtResolve, node_params, spawnCount, slept,
                   decoderNews, decoder, clock, publisherOk, frame, now,
                   pulls, lastPull, pulled, readings, sink, publishResults>>
    /\ UNCHANGED taskVars

\* Position of main after publish returned `result`: `let _ =` drops it.
AfterPublishBreak(result) == IF result = "ok" THEN "pull" ELSE "return"
AfterPublishAgain(result) == "publish"
AfterPublish(result) == "pull"

\* let _ = publisher.publish(&image_msg)                         (line 139)
Publish ==
    /\ pc = "publish"
    /\ sink' = Append(sink, image_msg)
    /\ \E r \in {"ok", "err"} :
         /\ publishResults' = Append(publishResults, r)
         /\ pc' = AfterPublish(r)
    /\ UNCHANGED <<exitCode, target_endian, env, taskAtResolve, node_params, spawnCount, slept,
                   decoderNews, decoder, clock, publisherOk, image_msg, frame,
                   now, pulls, lastPull, pulled, readings>>
    /\ UNCHANGED taskVars

\* The value main returns after the loop.
MainResultErr == ExitErr
MainResult == ExitOk

\* Ok(())                                                        (line 145)
ReturnAwaitTask ==
    /\ pc = "return"
    /\ task \in {"succeeded", "failed"}
    /\ Exit(MainResult)
    /\ UNCHANGED <<target_endian, env, taskAtResolve, node_params, spawnCount,
                   slept, decoderNews, decoder, clock, publisherOk, image_msg,
                   frame, now, pulls, lastPull, pulled, readings, sink,
                   publishResults>>
    /\ UNCHANGED taskVars
Return ==
    /\ pc = "return"
    /\ Exit(MainResult)
    /\ UNCHANGED <<target_endian, env, taskAtResolve, node_params, spawnCount, slept, decoderNews,
                   decoder, clock, publisherOk, image_msg, frame, now, pulls,
                   lastPull, pulled, readings, sink, publishResults>>
    /\ UNCHANGED taskVars

(* ------------------------- the bootstrapper task ----------------------- *)
\* The task runs only while the process does.
Running == pc # "exited"

\* let np = node_params_clone.lock().unwrap()                     (line 72)
TaskLock ==
    /\ Running
    /\ task = "spawned"
    /\ lock = "free"
    /\ lock' = "task"
    /\ task' = "locked"
    /\ UNCHANGED <<taskArgs, target_endian, env, taskAtResolve>>
    /\ UNCHANGED mainVars

\* The tuple copied out of the guard; the guard is dropped    (lines 73-80)
TaskCopyKeepLock ==
    /\ Running
    /\ task = "locked"
    /\ taskArgs' = [video_port |-> node_params.video_port,
                    audio_port |-> node_params.audio_port,
                    robot_ip |-> node_params.robot_ip,
                    robot_token |-> node_params.robot_token,
                    debug_webrtc |-> node_params.debug_webrtc]
    /\ lock' = lock
    /\ task' = "running"
    /\ UNCHANGED <<target_endian, env, taskAtResolve>>
    /\ UNCHANGED mainVars
TaskCopy ==
    /\ Running
    /\ task = "locked"
    /\ taskArgs' = [video_port |-> node_params.video_port,
                    audio_port |-> node_params.audio_port,
                    robot_ip |-> node_params.robot_ip,
                    robot_token |-> node_params.robot_token,
                    debug_webrtc |-> node_params.debug_webrtc]
    /\ lock' = "free"
    /\ task' = "running"
    /\ UNCHANGED <<target_endian, env, taskAtResolve>>
    /\ UNCHANGED mainVars

\* go2webrtc_rs::run(..).await                                (lines 82-89)
\* The call returns Ok, or returns Err / panics; main never reads which.
TaskRun ==
    /\ Running
    /\ task = "running"
    /\ task' \in {"succeeded", "failed"}
    /\ UNCHANGED <<lock, taskArgs, target_endian, env, taskAtResolve>>
    /\ UNCHANGED mainVars

(* ------------------------------ the system ----------------------------- *)
Next ==
    \/ ContextCreate
    \/ NodeCreate
    \/ ClockCreate
    \/ NodeName
    \/ VideoInit
    \/ ParamsInit
    \/ ParamHandler
    \/ Spawn
    \/ Sleep
    \/ DecoderNew
    \/ CreatePublisher
    \/ Header
    \/ Pull
    \/ GetNow
    \/ Assemble
    \/ Publish
    \/ Return
    \/ TaskLock
    \/ TaskCopy
    \/ TaskRun

Spec == Init /\ [][Next]_vars

\* The steps of the main flow, and the specification in which the main flow
\* keeps running while it has a step to take (every call it makes returns);
\* nothing is assumed about the progress of the bootstrapper task.
MainStep ==
    \/ ContextCreate \/ NodeCreate \/ ClockCreate \/ NodeName \/ VideoInit
    \/ ParamsInit \/ ParamHandler \/ Spawn \/ Sleep \/ DecoderNew
    \/ CreatePublisher \/ Header \/ Pull \/ GetNow \/ Assemble \/ Publish
    \/ Return

LiveSpec == Spec /\ WF_vars(MainStep)

(* ------------------------------ properties ----------------------------- *)
EndSignals == {"eos", "error"}

\* The failing clock query has been made.
ClockQueryFailed ==
    clock.state = "created" /\ clock.failAt > 0 /\ clock.queries = clock.failAt

\* C1: once a pull has yielded end-of-stream or a decode error as pull N,
\* exactly N-1 messages have been handed to the publisher, and no later step
\* issues another pull or hands over another message.
C1_EndSignalStopsLoop ==
    [][ /\ lastPull' \in EndSignals => Len(sink') = pulls' - 1
        /\ lastPull \in EndSignals =>
              /\ pulls' = pulls
              /\ sink' = sink
              /\ lastPull' = lastPull ]_vars

C1_Witness ==
    /\ lastPull = "eos"
    /\ pulls = 3
    /\ Len(sink) = 2
    /\ publishResults = <<"err", "ok">>

\* C2: a failed publish of frame K is followed by pull K+1 (or main is at the
\* loop head about to issue it); the numbers of pulls and of publish attempts
\* are fixed by the pull and clock outcomes alone, and the loop ends, and the
\* exit code is set, only by an end signal or a clock failure.
C2_PublishFailureIgnored ==
    /\ Len(publishResults) = Len(sink)
    /\ \A k \in 1..Len(publishResults) :
          publishResults[k] = "err" =>
             \/ pulls >= k + 1
             \/ pc = "pull" /\ exitCode = -1 /\ ENABLED Pull
    /\ pulls = Len(pulled) + (IF lastPull \in EndSignals THEN 1 ELSE 0)
    /\ Len(sink) = Len(readings) - (IF pc \in {"assemble", "publish"} THEN 1 ELSE 0)
    /\ (pc \in {"return", "exited"} /\ pulls > 0) =>
          \/ lastPull \in EndSignals /\ exitCode \in {-1, ExitOk}
          \/ ClockQueryFailed /\ exitCode = ExitErr

C2_Witness ==
    /\ publishResults = <<"err", "err">>
    /\ pulls = 3
    /\ pc = "exited"
    /\ exitCode = 0

\* C3: the k-th message handed to the publisher carries exactly the payload of
\* the k-th successfully pulled frame; every pulled frame is handed over before
\* the next pull unless the clock query for it failed.
C3_InOrderWholePayload ==
    /\ Len(sink) <= Len(pulled)
    /\ \A k \in 1..Len(sink) : sink[k].data = pulled[k]
    /\ ~ClockQueryFailed =>
          Len(sink) = Len(pulled) - (IF pc \in {"get_now", "assemble", "publish"}
                                     THEN 1 ELSE 0)

C3_Witness ==
    /\ Len(sink) = 2
    /\ sink[1].data # sink[2].data
    /\ pc = "pull"

\* C4: every message handed to the publisher has step = width * 3, where width
\* is the output width the decode session negotiated.
C4_StepIsThreeTimesWidth ==
    \A k \in 1..Len(sink) :
        /\ sink[k].width = decoder.width
        /\ sink[k].step = 3 * decoder.width

C4_Witness ==
    /\ Len(sink) = 2
    /\ decoder.width = 1920

\* C5: if the clock's readings are non-decreasing, so are the stamps of the
\* messages handed to the publisher; the clock is queried once for each
\* successfully pulled frame and never for a pull that yields an end signal.
ReadingsMonotone ==
    \A i, j \in 1..Len(readings) : i <= j => readings[i] <= readings[j]

C5_StampsMonotone ==
    /\ ReadingsMonotone =>
          \A i, j \in 1..Len(sink) :
              i <= j => TimeLeq(sink[i].stamp, sink[j].stamp)
    /\ clock.queries = Len(pulled) - (IF pc = "get_now" THEN 1 ELSE 0)

C5_Witness ==
    /\ Len(sink) = 2
    /\ readings = <<999999999, 1000000000>>
    /\ lastPull = "eos"

\* C6: once the clock query of iteration K has failed, the process has ended,
\* K-1 messages have been handed over (none for frame K), K pulls have been
\* issued, and each message carries the reading and the payload of its own
\* iteration.
C6_ClockFailureEndsLoop ==
    ClockQueryFailed =>
        /\ pc = "exited"
        /\ Len(sink) = clock.failAt - 1
        /\ pulls = clock.failAt
        /\ Len(readings) = Len(sink)
        /\ \A k \in 1..Len(sink) :
              /\ sink[k].stamp = [sec |-> readings[k] \div 1000000000,
                                  nanosec |-> readings[k] % 1000000000]
              /\ sink[k].data = pulled[k]

C6_Witness ==
    /\ ClockQueryFailed
    /\ clock.failAt = 2
    /\ Len(sink) = 1
    /\ Len(pulled) = 2
    /\ pulled[1] # pulled[2]

\* C7: decoder construction is attempted at most once; until it has succeeded
\* nothing is published, the clock is not queried and no frame is pulled; when
\* it fails the process ends with a non-zero exit code.
C7_DecoderFailureFatal ==
    /\ decoderNews <= 1
    /\ ~decoder.open => (sink = <<>> /\ clock.queries = 0 /\ pulls = 0)
    /\ (decoderNews = 1 /\ ~decoder.open) =>
          (pc = "exited" /\ exitCode > 0)

C7_Witness ==
    /\ decoderNews = 1
    /\ ~decoder.open
    /\ pc = "exited"
    /\ task = "running"

\* C8: after a pull has yielded end-of-stream or a decode error, main is at
\* its final return and the process ends with exit code 0.
C8_EndSignalExitsZero ==
    lastPull \in EndSignals =>
        \/ pc = "return" /\ exitCode = -1
        \/ pc = "exited" /\ exitCode = 0

C8_Witness ==
    /\ lastPull = "error"
    /\ pc = "exited"
    /\ Len(sink) = 1
    /\ publishResults = <<"err">>

\* C9: when clock creation or a clock query has failed, the process has ended
\* with a non-zero exit code.
C9_ClockFailureFatal ==
    (clock.state = "create_failed" \/ ClockQueryFailed) =>
        (pc = "exited" /\ exitCode > 0)

C9_Witness ==
    /\ ClockQueryFailed
    /\ Len(sink) = 1
    /\ publishResults = <<"ok">>
    /\ exitCode = 1

\* C10: the bootstrapper task is spawned at most once, and exactly once before
\* the grace period, decoder construction and every pull; decoder construction
\* is attempted only after the grace period, and it is enabled in every state
\* of the task.
C10_SpawnOnceThenGracePeriod ==
    /\ spawnCount <= 1
    /\ (slept \/ decoderNews > 0 \/ pulls > 0 \/ pc = "sleep") => spawnCount = 1
    /\ spawnCount = 1 <=> task # "unspawned"
    /\ decoderNews > 0 => slept
    /\ pc = "decoder_new" => (slept /\ ENABLED DecoderNew)

C10_Witness ==
    /\ decoderNews = 1
    /\ ~decoder.open
    /\ pc = "exited"
    /\ task = "spawned"

\* C11 (amended): the main flow constructs the decoder in whatever state the
\* bootstrapper task is, a failed task included; when the construction fails
\* the process has ended with the panic exit code and nothing was pulled or
\* handed to the publisher.  A failed task does not by itself make the
\* construction fail.
C11_ResolverFailureFatal ==
    /\ decoderNews = 1 <=> taskAtResolve # "none"
    /\ taskAtResolve \in {"none", "spawned", "locked", "running", "succeeded",
                          "failed"}
    /\ (taskAtResolve # "none" /\ ~decoder.open) =>
          /\ pc = "exited"
          /\ exitCode = ExitPanic
          /\ pulls = 0
          /\ sink = <<>>
          /\ publishResults = <<>>

C11_Witness ==
    /\ taskAtResolve = "failed"
    /\ ~decoder.open
    /\ pc = "exited"
    /\ exitCode = 101

\* C11 as stated: when the bootstrapper task had failed by the time of the
\* resolver step, no decode session is produced, the process ends with a
\* non-zero exit code and no message is handed to the publisher.
C11_Original ==
    taskAtResolve = "failed" =>
        /\ ~decoder.open
        /\ pc = "exited"
        /\ exitCode > 0
        /\ sink = <<>>

\* Positions at which the main flow is inside a sleep, decode, clock or
\* publish call.
MainBlocked == pc \in {"sleep", "decoder_new", "pull", "get_now", "publish"}

\* C12 (amended): the lock is held exactly while the task copies the five
\* fields out: it is free when the task asks for it, it is released before the
\* connection call begins and stays free afterwards, and the holder can always
\* finish the copy.  The main flow, which never takes the lock, may be in any
\* of its calls meanwhile.
C12_LockHeldOnlyWhileCopying ==
    /\ lock \in {"free", "task"}
    /\ lock = "task" <=> task = "locked"
    /\ task \in {"running", "succeeded", "failed"} =>
          (lock = "free" /\ taskArgs # NoArgs)
    /\ (task = "spawned" /\ Running) => ENABLED TaskLock
    /\ (task = "locked" /\ Running) => ENABLED TaskCopy

C12_Witness ==
    /\ task = "running"
    /\ lock = "free"
    /\ pc = "sleep"

\* C12 as stated: besides the above, in no reachable state is the lock held
\* while any task, the main flow included, is in a sleep, connection, decode,
\* clock or publish call.
C12_Original ==
    /\ lock = "task" <=> task = "locked"
    /\ ~(lock = "task" /\ (MainBlocked \/ task = "running"))

\* C13: from the spawn on, the shared parameters hold the values set at
\* initialization (endpoint and token from the environment or "", video port
\* 4002, audio port 4000, debug on), and these are the values the task passes
\* to the connection call.
ParamsAtInit ==
    [robot_ip |-> IF env.ROBOT_IP = "unset" THEN "" ELSE env.ROBOT_IP,
     robot_token |-> IF env.ROBOT_TOKEN = "unset" THEN "" ELSE env.ROBOT_TOKEN,
     video_port |-> 4002, audio_port |-> 4000, debug_webrtc |-> TRUE]

C13_ParamsImmutable ==
    /\ spawnCount >= 1 => node_params = ParamsAtInit
    /\ task \in {"running", "succeeded", "failed"} =>
          /\ taskArgs.robot_ip = ParamsAtInit.robot_ip
          /\ taskArgs.robot_token = ParamsAtInit.robot_token
          /\ taskArgs.video_port = ParamsAtInit.video_port
          /\ taskArgs.audio_port = ParamsAtInit.audio_port
          /\ taskArgs.debug_webrtc = ParamsAtInit.debug_webrtc
    /\ task \in {"unspawned", "spawned", "locked"} => taskArgs = NoArgs

C13_Witness ==
    /\ task = "running"
    /\ taskAtResolve = "spawned"
    /\ Len(sink) = 1
    /\ env.ROBOT_IP = "robot"
    /\ env.ROBOT_TOKEN = "unset"

\* C14: every message handed to the publisher has is_bigendian 0 on a
\* little-endian build and 1 on a big-endian build, whatever the frames.
C14_EndianFlag ==
    \A k \in 1..Len(sink) :
        sink[k].is_bigendian = (IF target_endian = "little" THEN 0 ELSE 1)

C14_Witness ==
    /\ target_endian = "big"
    /\ Len(sink) = 2
    /\ sink[1].data # sink[2].data

\* C15: once the header is set, the message in main and every message handed
\* to the publisher carry the same frame id, the negotiated width and height,
\* step 3 * width, encoding rgb8 and the build's endianness flag; an
\* iteration changes the stamp and the payload only.
HeaderFields(m) ==
    <<m.frame_id, m.width, m.height, m.step, m.encoding, m.is_bigendian>>

C15_HeaderFixed ==
    LET shape == <<"front_camera", decoder.width, decoder.height,
                   3 * decoder.width, "rgb8",
                   IF target_endian = "little" THEN 0 ELSE 1>>
    IN  /\ pc \in {"pull", "get_now", "assemble", "publish", "return"} =>
              HeaderFields(image_msg) = shape
        /\ \A k \in 1..Len(sink) : HeaderFields(sink[k]) = shape

C15_Witness ==
    /\ Len(sink) = 2
    /\ \A k \in 1..2 : /\ sink[k].width = 64
                       /\ sink[k].height = 48
                       /\ sink[k].step = 192
                       /\ sink[k].encoding = "rgb8"
    /\ sink[1].stamp # sink[2].stamp
    /\ sink[1].data # sink[2].data

\* C16: the number of publish attempts is the number of successful pulls or
\* one less, no frame is handed over twice, and a pull is issued only when
\* the publish of every earlier frame has returned.
C16_OneFrameInFlight ==
    /\ Len(sink) \in {Len(pulled), Len(pulled) - 1}
    /\ Len(publishResults) = Len(sink)
    /\ pc = "pull" => Len(publishResults) = Len(pulled)
    /\ Len(pulled) <= pulls
    /\ pulls <= Len(publishResults) + 1

C16_Witness ==
    /\ pc = "publish"
    /\ Len(pulled) = 2
    /\ Len(sink) = 1

\* C17: when every call of the main flow returns, the process exits, with no
\* assumption on the bootstrapper task making any step.
C17_MainTerminates == <>(pc = "exited")

C17_Witness ==
    /\ pc = "exited"
    /\ exitCode = 0
    /\ lastPull = "eos"
    /\ Len(sink) = 2
    /\ task = "spawned"

====
